---- MODULE Spec2Model ----
(***************************************************************************)
(* Workflow, access control and audit trail of the plans app               *)
(* (AnnualPlan / QuarterlyReport life cycle served by the DRF viewsets).   *)
(*                                                                         *)
(* One action is one HTTP request handled to completion.  The database is  *)
(* in autocommit mode (no ATOMIC_REQUESTS), so every save()/create()/      *)
(* delete() commits on its own unless the handler opens                    *)
(* transaction.atomic().  A request names its actor, the object id, the    *)
(* `year` query parameter and which store write, if any, raises.           *)
(***************************************************************************)
EXTENDS Integers, Sequences, FiniteSets, TLC

\* ------------------------------------------------------------------ bounds
MaxAudit == 3       \* rows in the audit table beyond which no request writes
MaxTime  == 1       \* last instant of the clock
MaxBulk  == 2       \* longest id list of a bulk request
MaxFaults == 1      \* store writes that may raise in one run
MaxInflight == 2    \* requests that may be in progress at once

\* --------------------------------------------------------------- vocabulary
None == "None"

Units == {"U1", "U2"}

\* models.py Unit.parent: U1 is the parent of U2
UnitParent == [u \in Units |-> IF u = "U2" THEN "U1" ELSE None]

Roles == {"SUPERADMIN", "STRATEGIC_AFFAIRS", "STATE_MINISTER", "ADVISOR"}

Statuses == {"DRAFT", "SUBMITTED", "APPROVED", "REJECTED"}

\* authenticated users; "noprof" has no UserProfile row
Users == {"root", "strat", "minister", "noprof"}

Anonymous == "anon"

Actors == Users \cup {Anonymous}

ProfileRecs == [role : Roles, unit : Units]

\* an unset DateTimeField
NoTime == -1

\* get_user_profile's result for a user without a UserProfile row
NoProfile == [role |-> None, unit |-> None]

\* models.py Indicator.owner_unit
Indicators == {"I1", "I2"}

IndicatorOwner == [i \in Indicators |-> IF i = "I1" THEN "U1" ELSE "U2"]

\* the UserProfile table the workflow runs against
HomeProfiles ==
  [u \in Users |->
     CASE u = "root"     -> [role |-> "SUPERADMIN",        unit |-> "U1"]
       [] u = "strat"    -> [role |-> "STRATEGIC_AFFAIRS", unit |-> "U1"]
       [] u = "minister" -> [role |-> "STATE_MINISTER",    unit |-> "U2"]
       [] OTHER          -> NoProfile]

Years == {2025, 2026}

PlanIds == {1, 2}

\* the values a PATCH of the plan resource sets `status` to
UpdateStatuses == {"APPROVED"}

\* which store write of the request raises
Faults == {"none", "save", "audit"}

VARIABLES
  profiles,   \* UserProfile table: user -> [role, unit] or NoProfile
  plans,      \* AnnualPlan table: id -> row, for the ids that exist
  targets,    \* AnnualPlanTarget table: set of [plan, indicator]
  audit,      \* WorkflowAudit table, oldest row first
  now,        \* timezone.now()
  faults,     \* store writes that have raised so far
  probe,      \* the last can_access_unit question and its answer
  reports,    \* QuarterlyReport table: id -> row, for the ids that exist
  entries,    \* QuarterlyIndicatorEntry table: set of [report, indicator]
  inflight,   \* worker -> the request it is in the middle of, or Idle
  units,      \* Unit table: unit -> its parent, or None
  call        \* the last call of a model method or progress view, with its result

vars == <<profiles, plans, targets, audit, now, faults, probe,
          reports, entries, inflight, units, call>>

\* the workers serving requests side by side
Workers == 1..MaxInflight

\* a worker between requests
Idle == [op |-> None, user |-> None, pk |-> 0, pc |-> "idle"]

\* no method called yet
NoCall == [fn |-> None]

\* what a request on the plan resource leaves alone
elsewhere == <<reports, entries, inflight, units, call>>

\* no report in the store, every worker idle
InitElsewhere ==
  /\ reports = << >>
  /\ entries = {}
  /\ inflight = [w \in Workers |-> Idle]
  /\ units = UnitParent
  /\ call = NoCall

\* ------------------------------------------------------- base.py helpers

\* base.py get_user_profile
get_user_profile(user) ==
  IF user = Anonymous THEN NoProfile ELSE profiles[user]

\* hierarchical variant: a user of the parent unit reaches the child unit
can_user_access_unit_hier(user, unit) ==
  LET profile == get_user_profile(user) IN
    IF profile = NoProfile THEN FALSE
    ELSE IF profile.role = "SUPERADMIN" THEN TRUE
    ELSE profile.unit = unit \/ UnitParent[unit] = profile.unit

\* base.py can_user_access_unit
\* an access predicate that lets a user without a profile in
can_user_access_unit_any(user, unit) ==
  LET profile == get_user_profile(user) IN
    IF profile = NoProfile THEN TRUE
    ELSE IF profile.role = "SUPERADMIN" THEN TRUE
    ELSE profile.unit = unit

can_user_access_unit(user, unit) ==
  LET profile == get_user_profile(user) IN
    IF profile = NoProfile THEN FALSE
    ELSE IF profile.role = "SUPERADMIN" THEN TRUE
    ELSE profile.unit = unit

\* no question asked yet
NoProbe == [user |-> None, unit |-> None, allowed |-> FALSE]

\* BaseViewSet.can_access_unit, asked by `user` about `unit`
can_access_unit(user, unit) ==
  /\ probe' = [user |-> user, unit |-> unit,
               allowed |-> can_user_access_unit(user, unit)]
  /\ UNCHANGED <<elsewhere, profiles, plans, targets, audit, now, faults>>

\* the row WorkflowAudit.objects.create() inserts
AuditRow(user, unit, action, plan) ==
  [actor |-> user, unit |-> unit, action |-> action, context_plan |-> plan,
   context_report |-> 0]

\* base.py log_workflow_action / BaseViewSet.log_action
log_workflow_action(log, user, unit, action, plan) ==
  Append(log, AuditRow(user, unit, action, plan))

\* roles allowed to approve or reject
Approvers == {"SUPERADMIN", "STRATEGIC_AFFAIRS"}

\* ------------------------------------------------- AnnualPlanViewSet

\* a freshly created AnnualPlan row (models.py defaults)
NewPlan(unit, year) ==
  [unit |-> unit, year |-> year, status |-> "DRAFT", submitted_at |-> NoTime,
   approved_by |-> None, approved_at |-> NoTime]

\* AnnualPlanViewSet.get_queryset, for a user that has a profile
AnnualPlan_get_queryset(user, year) ==
  LET profile == get_user_profile(user) IN
    {p \in DOMAIN plans :
       /\ plans[p].year = year
       /\ (profile.role # "SUPERADMIN" => plans[p].unit = profile.unit)}

\* what the request meets before the handler body runs: IsAuthenticated,
\* then get_object() over get_queryset()
AnnualPlan_get_object(user, pk, year) ==
  IF user = Anonymous THEN "NotAuthenticated"
  ELSE IF get_user_profile(user) = NoProfile THEN "ServerError"
  ELSE IF pk \notin AnnualPlan_get_queryset(user, year) THEN "NotFound"
  ELSE "Found"

\* plan.targets.exists()
targets_exist(pk) == \E t \in targets : t.plan = pk

\* submit that does not look at the targets
submit_check_no_targets(user, pk) ==
  IF ~can_user_access_unit(user, plans[pk].unit) THEN "PermissionDenied"
  ELSE IF plans[pk].status # "DRAFT" THEN "InvalidState"
  ELSE "OK"

\* the early returns of submit
submit_check(user, pk) ==
  IF ~can_user_access_unit(user, plans[pk].unit) THEN "PermissionDenied"
  ELSE IF plans[pk].status # "DRAFT" THEN "InvalidState"
  ELSE IF ~targets_exist(pk) THEN "EmptyEntity"
  ELSE "OK"

\* the assignments of submit
submit_effect(plan, when) ==
  [plan EXCEPT !.status = "SUBMITTED", !.submitted_at = when]

\* approve that does not look at the status
approve_check_no_status(user, pk) ==
  IF ~can_user_access_unit(user, plans[pk].unit) THEN "PermissionDenied"
  ELSE IF get_user_profile(user).role \notin Approvers THEN "PermissionDenied"
  ELSE "OK"

\* the early returns of approve
approve_check(user, pk) ==
  IF ~can_user_access_unit(user, plans[pk].unit) THEN "PermissionDenied"
  ELSE IF get_user_profile(user).role \notin Approvers THEN "PermissionDenied"
  ELSE IF plans[pk].status # "SUBMITTED" THEN "InvalidState"
  ELSE "OK"

\* the assignments of approve
approve_effect(plan, user, when) ==
  [plan EXCEPT !.status = "APPROVED", !.approved_by = user,
               !.approved_at = when]

\* the early returns of reject
reject_check(user, pk) ==
  IF ~can_user_access_unit(user, plans[pk].unit) THEN "PermissionDenied"
  ELSE IF get_user_profile(user).role \notin Approvers THEN "PermissionDenied"
  ELSE IF plans[pk].status # "SUBMITTED" THEN "InvalidState"
  ELSE "OK"

\* reject that stamps the approval time as approve does
reject_effect_stamped(plan) ==
  [plan EXCEPT !.status = "REJECTED", !.approved_at = now]

\* the assignments of reject
reject_effect(plan) == [plan EXCEPT !.status = "REJECTED"]

\* the response of a detail route: what get_object met, else the first early
\* return, else a raising store write, else success
Respond(found, check, fault) ==
  IF found # "Found" THEN found
  ELSE IF check # "OK" THEN check
  ELSE IF fault # "none" THEN "StoreFault"
  ELSE "OK"

\* a store write of the request raises, or none does
Raise(fault) ==
  IF fault = "none" THEN faults' = faults
  ELSE faults < MaxFaults /\ faults' = faults + 1

\* plan.save() followed by self.log_action(...), each committing on its own
SaveThenLog(user, pk, fault, row, action) ==
  /\ Raise(fault)
  /\ IF fault = "save"
     THEN UNCHANGED <<plans, audit>>
     ELSE /\ plans' = [plans EXCEPT ![pk] = row]
          /\ IF fault = "audit"
             THEN audit' = audit
             ELSE /\ Len(audit) < MaxAudit
                  /\ audit' = log_workflow_action(audit, user, plans[pk].unit,
                                                  action, pk)

\* a detail-route workflow action: get_object, the checks, then the writes
Workflow(user, pk, year, fault, check, row, action) ==
  /\ UNCHANGED <<elsewhere, probe, profiles, targets, now>>
  /\ IF Respond(AnnualPlan_get_object(user, pk, year), check, "none") # "OK"
     THEN UNCHANGED <<plans, audit, faults>>
     ELSE SaveThenLog(user, pk, fault, row, action)

\* the response of AnnualPlanViewSet.submit
submit_response(user, pk, year, fault) ==
  Respond(AnnualPlan_get_object(user, pk, year), submit_check(user, pk), fault)

\* AnnualPlanViewSet.submit
submit(user, pk, year, fault) ==
  Workflow(user, pk, year, fault, submit_check(user, pk),
           submit_effect(plans[pk], now), "SUBMIT")

\* the response of AnnualPlanViewSet.approve
approve_response(user, pk, year, fault) ==
  Respond(AnnualPlan_get_object(user, pk, year), approve_check(user, pk), fault)

\* AnnualPlanViewSet.approve
approve(user, pk, year, fault) ==
  Workflow(user, pk, year, fault, approve_check(user, pk),
           approve_effect(plans[pk], user, now), "APPROVE")

\* the response of AnnualPlanViewSet.reject
reject_response(user, pk, year, fault) ==
  Respond(AnnualPlan_get_object(user, pk, year), reject_check(user, pk), fault)

\* AnnualPlanViewSet.reject
reject(user, pk, year, fault) ==
  Workflow(user, pk, year, fault, reject_check(user, pk),
           reject_effect(plans[pk]), "REJECT")

\* the response of AnnualPlanViewSet.perform_update (PATCH {status: st})
perform_update_response(user, pk, year, fault) ==
  Respond(AnnualPlan_get_object(user, pk, year), "OK", fault)

\* AnnualPlanViewSet.perform_update under AnnualPlanSerializer, whose
\* read_only_fields leave `status` writable: the audit row is written first,
\* then serializer.save()
perform_update(user, pk, year, fault, st) ==
  /\ UNCHANGED <<elsewhere, probe, profiles, targets, now>>
  /\ IF AnnualPlan_get_object(user, pk, year) # "Found"
     THEN UNCHANGED <<plans, audit, faults>>
     ELSE /\ Raise(fault)
          /\ IF fault = "audit"
             THEN UNCHANGED <<plans, audit>>
             ELSE /\ Len(audit) < MaxAudit
                  /\ audit' = log_workflow_action(audit, user, plans[pk].unit,
                                                  "UPDATE", pk)
                  /\ IF fault = "save"
                     THEN plans' = plans
                     ELSE plans' = [plans EXCEPT ![pk].status = st]

\* on_delete=CASCADE of WorkflowAudit.context_plan
cascade_audit(log, pk) == SelectSeq(log, LAMBDA r : r.context_plan # pk)

\* the response of AnnualPlanViewSet.perform_destroy
perform_destroy_response(user, pk, year, fault) ==
  Respond(AnnualPlan_get_object(user, pk, year), "OK", fault)

\* AnnualPlanViewSet.perform_destroy: the audit row is written first, then
\* instance.delete() removes the plan, its targets and its audit rows
perform_destroy(user, pk, year, fault) ==
  /\ UNCHANGED <<elsewhere, probe, profiles, now>>
  /\ IF AnnualPlan_get_object(user, pk, year) # "Found"
     THEN UNCHANGED <<plans, targets, audit, faults>>
     ELSE /\ Raise(fault)
          /\ IF fault = "audit"
             THEN UNCHANGED <<plans, targets, audit>>
             ELSE /\ Len(audit) < MaxAudit
                  /\ IF fault = "save"
                     THEN /\ audit' = log_workflow_action(audit, user,
                                          plans[pk].unit, "DELETE", pk)
                          /\ UNCHANGED <<plans, targets>>
                     ELSE /\ plans' = [p \in DOMAIN plans \ {pk} |-> plans[p]]
                          /\ targets' = {t \in targets : t.plan # pk}
                          /\ audit' = cascade_audit(
                                log_workflow_action(audit, user, plans[pk].unit,
                                                    "DELETE", pk), pk)

\* the response of AnnualPlanViewSet.perform_create: serializer.save(unit=...,
\* created_by=...) reaches AnnualPlanSerializer.create, which passes unit and
\* created_by twice to AnnualPlan.objects.create() and raises TypeError
perform_create_response(user) ==
  IF user = Anonymous THEN "NotAuthenticated" ELSE "ServerError"

\* AnnualPlanViewSet.perform_create: no row is ever inserted
perform_create(user) ==
  UNCHANGED <<elsewhere, probe, profiles, plans, targets, audit, now, faults>>

\* bulk_approve that approves every listed plan whatever its status
RECURSIVE bulk_approve_loop_any(_, _, _, _)
bulk_approve_loop_any(ids, db, user, when) ==
  IF ids = <<>> THEN db
  ELSE LET pid == Head(ids) IN
    IF pid \in DOMAIN db.plans
    THEN bulk_approve_loop_any(Tail(ids),
           [plans |-> [db.plans EXCEPT
                         ![pid] = [@ EXCEPT !.status = "APPROVED",
                                            !.approved_by = user,
                                            !.approved_at = when]],
            audit |-> log_workflow_action(db.audit, user, db.plans[pid].unit,
                                          "APPROVE", pid),
            count |-> db.count + 1],
           user, when)
    ELSE bulk_approve_loop_any(Tail(ids), db, user, when)

\* the loop of bulk_approve over the listed ids; db = [plans, audit, count]
RECURSIVE bulk_approve_loop(_, _, _, _)
bulk_approve_loop(ids, db, user, when) ==
  IF ids = <<>> THEN db
  ELSE LET pid == Head(ids) IN
    IF pid \in DOMAIN db.plans /\ db.plans[pid].status = "SUBMITTED"
    THEN bulk_approve_loop(Tail(ids),
           [plans |-> [db.plans EXCEPT
                         ![pid] = approve_effect(db.plans[pid], user, when)],
            audit |-> log_workflow_action(db.audit, user, db.plans[pid].unit,
                                          "APPROVE", pid),
            count |-> db.count + 1],
           user, when)
    ELSE bulk_approve_loop(Tail(ids), db, user, when)

\* a loop that tests the status the plan had before the request instead of
\* the one the loop has just saved: a repeated id is rejected again
RECURSIVE bulk_reject_loop_stale(_, _, _)
bulk_reject_loop_stale(ids, db, user) ==
  IF ids = <<>> THEN db
  ELSE LET pid == Head(ids) IN
    IF pid \in DOMAIN plans /\ plans[pid].status = "SUBMITTED"
    THEN bulk_reject_loop_stale(Tail(ids),
           [plans |-> [db.plans EXCEPT ![pid] = reject_effect(db.plans[pid])],
            audit |-> log_workflow_action(db.audit, user, db.plans[pid].unit,
                                          "REJECT", pid),
            count |-> db.count + 1],
           user)
    ELSE bulk_reject_loop_stale(Tail(ids), db, user)

\* the loop of bulk_reject over the listed ids
RECURSIVE bulk_reject_loop(_, _, _)
bulk_reject_loop(ids, db, user) ==
  IF ids = <<>> THEN db
  ELSE LET pid == Head(ids) IN
    IF pid \in DOMAIN db.plans /\ db.plans[pid].status = "SUBMITTED"
    THEN bulk_reject_loop(Tail(ids),
           [plans |-> [db.plans EXCEPT ![pid] = reject_effect(db.plans[pid])],
            audit |-> log_workflow_action(db.audit, user, db.plans[pid].unit,
                                          "REJECT", pid),
            count |-> db.count + 1],
           user)
    ELSE bulk_reject_loop(Tail(ids), db, user)

\* the early returns of bulk_approve and bulk_reject
bulk_check(user, ids) ==
  IF user = Anonymous THEN "NotAuthenticated"
  ELSE IF get_user_profile(user) = NoProfile THEN "ServerError"
  ELSE IF get_user_profile(user).role \notin Approvers THEN "PermissionDenied"
  ELSE IF ids = <<>> THEN "ValidationError"
  ELSE "OK"

\* what bulk_approve computes inside transaction.atomic()
bulk_approve_result(user, ids) ==
  bulk_approve_loop(ids, [plans |-> plans, audit |-> audit, count |-> 0],
                    user, now)

\* what bulk_reject computes inside transaction.atomic()
bulk_reject_result(user, ids) ==
  bulk_reject_loop(ids, [plans |-> plans, audit |-> audit, count |-> 0], user)

\* a bulk request whose writes would each commit on their own: a raising audit
\* write leaves the saves before it in the store
Bulk_autocommit(user, ids, fault, result) ==
  /\ UNCHANGED <<elsewhere, probe, profiles, targets, now>>
  /\ IF bulk_check(user, ids) # "OK" \/ result.count = 0
     THEN UNCHANGED <<plans, audit, faults>>
     ELSE /\ Raise(fault)
          /\ Len(audit) < MaxAudit
          /\ plans' = IF fault = "save" THEN plans ELSE result.plans
          /\ audit' = IF fault = "none" THEN result.audit ELSE audit

\* a bulk request: the checks, then the atomic block, which a raising write
\* rolls back
Bulk(user, ids, fault, result) ==
  /\ UNCHANGED <<elsewhere, probe, profiles, targets, now>>
  /\ IF bulk_check(user, ids) # "OK" \/ result.count = 0
     THEN UNCHANGED <<plans, audit, faults>>
     ELSE /\ Raise(fault)
          /\ IF fault # "none"
             THEN UNCHANGED <<plans, audit>>
             ELSE /\ Len(audit) < MaxAudit
                  /\ plans' = result.plans
                  /\ audit' = result.audit

\* the response of a bulk request
Bulk_response(user, ids, fault, result) ==
  IF bulk_check(user, ids) # "OK" THEN bulk_check(user, ids)
  ELSE IF fault # "none" /\ result.count > 0 THEN "StoreFault"
  ELSE "OK"

\* AnnualPlanViewSet.bulk_approve
bulk_approve(user, ids, fault) ==
  Bulk(user, ids, fault, bulk_approve_result(user, ids))

\* the response of AnnualPlanViewSet.bulk_approve
bulk_approve_response(user, ids, fault) ==
  Bulk_response(user, ids, fault, bulk_approve_result(user, ids))

\* AnnualPlanViewSet.bulk_reject
bulk_reject(user, ids, fault) ==
  Bulk(user, ids, fault, bulk_reject_result(user, ids))

\* the response of AnnualPlanViewSet.bulk_reject
bulk_reject_response(user, ids, fault) ==
  Bulk_response(user, ids, fault, bulk_reject_result(user, ids))

\* the id lists a bulk request may carry
IdLists == UNION {[1..n -> PlanIds] : n \in 0..MaxBulk}

\* time passes between requests
Tick ==
  /\ now < MaxTime
  /\ now' = now + 1
  /\ UNCHANGED <<elsewhere, probe, profiles, plans, targets, audit, faults>>

\* rows an administrator may have entered through the admin inlines
AdminTargets == {[plan |-> 1, indicator |-> "I1"], [plan |-> 2, indicator |-> "I2"]}

\* the target tables a run starts from: plan 2 with or without a target
InitialTargets == {AdminTargets, {[plan |-> 1, indicator |-> "I1"]}}

Init ==
  /\ profiles = HomeProfiles
  /\ plans = [p \in PlanIds |-> NewPlan(IF p = 1 THEN "U1" ELSE "U2", 2025)]
  /\ targets \in InitialTargets
  /\ audit = <<>>
  /\ now = 0
  /\ faults = 0
  /\ probe = NoProbe
  /\ InitElsewhere

\* one request against the plan resource, its store fault drawn from fs
Request(fs) ==
  \/ \E user \in Actors : perform_create(user)
  \/ \E user \in Actors, pk \in PlanIds, year \in Years, fault \in fs :
        \/ submit(user, pk, year, fault)
        \/ approve(user, pk, year, fault)
        \/ reject(user, pk, year, fault)
        \/ perform_destroy(user, pk, year, fault)
        \/ \E st \in UpdateStatuses : perform_update(user, pk, year, fault, st)
  \/ \E user \in Actors, ids \in IdLists, fault \in fs :
        \/ bulk_approve(user, ids, fault)
        \/ bulk_reject(user, ids, fault)

\* the store is healthy
Next ==
  \/ Tick
  \/ Request({"none"})

Spec == Init /\ [][Next]_vars

\* a store holding plan 1 and its target, whose writes may raise
InitFault ==
  /\ profiles = HomeProfiles
  /\ plans = [p \in {1} |-> NewPlan("U1", 2025)]
  /\ targets = {[plan |-> 1, indicator |-> "I1"]}
  /\ audit = <<>>
  /\ now = 0
  /\ faults = 0
  /\ probe = NoProbe
  /\ InitElsewhere

NextFault ==
  \/ Tick
  \/ Request(Faults)

SpecFault == InitFault /\ [][NextFault]_vars

\* bulk requests whose writes may raise, on plans submitted beforehand
NextBulkFault ==
  \/ \E user \in Actors, pk \in PlanIds, year \in Years :
        submit(user, pk, year, "none")
  \/ \E user \in Actors, ids \in IdLists, fault \in Faults :
        \/ bulk_approve(user, ids, fault)
        \/ bulk_reject(user, ids, fault)

SpecBulkFault == Init /\ [][NextBulkFault]_vars

\* an id no AnnualPlan row has
MissingId == 3

\* the id lists that name an id twice or name the missing id
WildLists ==
  {ids \in UNION {[1..n -> PlanIds \cup {MissingId}] : n \in 1..(MaxBulk + 1)} :
     \/ \E i \in DOMAIN ids : ids[i] = MissingId
     \/ \E i, j \in DOMAIN ids : i # j /\ ids[i] = ids[j]}

\* bulk requests carrying such lists, on plans submitted beforehand
NextBulkLists ==
  \/ \E user \in Actors, pk \in PlanIds, year \in Years :
        submit(user, pk, year, "none")
  \/ \E user \in Actors, ids \in WildLists :
        \/ bulk_approve(user, ids, "none")
        \/ bulk_reject(user, ids, "none")

SpecBulkLists == Init /\ [][NextBulkLists]_vars

\* the access predicate over any UserProfile table, no plan in the store
InitAccess ==
  /\ profiles \in [Users -> ProfileRecs \cup {NoProfile}]
  /\ plans = << >>
  /\ targets = {}
  /\ audit = <<>>
  /\ now = 0
  /\ faults = 0
  /\ probe = NoProbe
  /\ InitElsewhere

NextAccess == \E user \in Actors, unit \in Units : can_access_unit(user, unit)

SpecAccess == InitAccess /\ [][NextAccess]_vars

\* ------------------------------------------- child records of a plan

\* models.py default_entry_window: timedelta(days=30)
DefaultWindowDays == 30

\* the first year the model knows; `now` counts days from its 1 January
FirstYear == CHOOSE y \in Years : \A z \in Years : y <= z

\* 1 January of `year`, in days
YearStart(year) == (year - FirstYear) * 365

\* AnnualPlan.default_entry_window
default_entry_window(plan) ==
  [start |-> YearStart(plan.year),
   end   |-> YearStart(plan.year) + DefaultWindowDays]

\* AnnualPlan.is_within_entry_window, for a plan whose entry_window_start
\* and entry_window_end are null, as every plan row of this model is
is_within_entry_window(plan, when) ==
  LET w == default_entry_window(plan) IN w.start <= when /\ when <= w.end

\* the target rows a request may name
TargetRows == [plan : PlanIds, indicator : Indicators]

\* AnnualPlanTargetViewSet.get_queryset without a plan_id parameter, for a
\* user that has a profile
AnnualPlanTarget_get_queryset(user) ==
  LET profile == get_user_profile(user) IN
    {t \in targets :
       profile.role = "SUPERADMIN" \/ plans[t.plan].unit = profile.unit}

\* IsAuthenticated, then get_object() over the target queryset
AnnualPlanTarget_get_object(user, t) ==
  IF user = Anonymous THEN "NotAuthenticated"
  ELSE IF get_user_profile(user) = NoProfile THEN "ServerError"
  ELSE IF t \notin AnnualPlanTarget_get_queryset(user) THEN "NotFound"
  ELSE "Found"

\* the early returns of AnnualPlanViewSet.add_target and what follows them:
\* with an indicator of the plan's unit, serializer.save(plan=..,
\* indicator=..) reaches AnnualPlanTargetSerializer.create, which passes
\* `indicator` twice to AnnualPlanTarget.objects.create() and raises TypeError
add_target_check(user, pk, ind) ==
  IF ~can_user_access_unit(user, plans[pk].unit) THEN "PermissionDenied"
  ELSE IF plans[pk].status # "DRAFT" THEN "InvalidState"
  ELSE IF IndicatorOwner[ind] # plans[pk].unit THEN "InvalidIndicator"
  ELSE "ServerError"

\* the response of AnnualPlanViewSet.add_target
add_target_response(user, pk, year, ind) ==
  Respond(AnnualPlan_get_object(user, pk, year),
          add_target_check(user, pk, ind), "none")

\* AnnualPlanViewSet.add_target: no row is ever inserted
add_target(user, pk, year, ind) ==
  UNCHANGED <<elsewhere, probe, profiles, plans, targets, audit, now, faults>>

\* the Response objects AnnualPlanTargetViewSet.perform_create returns
\* early; "OK" when it goes on to serializer.save(plan=plan)
target_create_check(user, plan_id) ==
  IF plan_id \notin DOMAIN plans THEN "NotFound"
  ELSE IF ~can_user_access_unit(user, plans[plan_id].unit)
  THEN "PermissionDenied"
  ELSE IF plans[plan_id].status # "DRAFT" THEN "InvalidState"
  ELSE "OK"

\* the response of POST on the target resource: CreateModelMixin.create
\* ignores what perform_create returns and answers 201; a second row for
\* (plan, indicator) breaks unique_together at the store
target_create_response(user, plan_id, ind) ==
  IF user = Anonymous THEN "NotAuthenticated"
  ELSE IF target_create_check(user, plan_id) # "OK" THEN "OK"
  ELSE IF [plan |-> plan_id, indicator |-> ind] \in targets
  THEN "ServerError"
  ELSE "OK"

\* AnnualPlanTargetViewSet.perform_create
target_perform_create(user, plan_id, ind) ==
  /\ UNCHANGED <<elsewhere, probe, profiles, plans, now, faults>>
  /\ IF \/ user = Anonymous
        \/ target_create_check(user, plan_id) # "OK"
        \/ [plan |-> plan_id, indicator |-> ind] \in targets
     THEN UNCHANGED <<targets, audit>>
     ELSE /\ Len(audit) < MaxAudit
          /\ targets' = targets \cup {[plan |-> plan_id, indicator |-> ind]}
          /\ audit' = log_workflow_action(audit, user, plans[plan_id].unit,
                                          "CREATE", plan_id)

\* an edit check that lets the targets of any plan be edited
target_edit_check_no_status(user, t) ==
  IF ~can_user_access_unit(user, plans[t.plan].unit) THEN "PermissionDenied"
  ELSE "OK"

\* the Response objects perform_update and perform_destroy of the target
\* resource return early
target_edit_check(user, t) ==
  IF ~can_user_access_unit(user, plans[t.plan].unit) THEN "PermissionDenied"
  ELSE IF plans[t.plan].status # "DRAFT" THEN "InvalidState"
  ELSE "OK"

\* the response of PUT/PATCH on a target: UpdateModelMixin.update ignores
\* what perform_update returns and answers 200
target_update_response(user, t, ind) ==
  IF AnnualPlanTarget_get_object(user, t) # "Found"
  THEN AnnualPlanTarget_get_object(user, t)
  ELSE IF target_edit_check(user, t) # "OK" THEN "OK"
  ELSE IF ind # t.indicator /\ [plan |-> t.plan, indicator |-> ind] \in targets
  THEN "ServerError"
  ELSE "OK"

\* AnnualPlanTargetViewSet.perform_update under
\* AnnualPlanTargetSerializer.update, which takes any indicator
target_perform_update(user, t, ind) ==
  /\ UNCHANGED <<elsewhere, probe, profiles, plans, now, faults>>
  /\ IF \/ AnnualPlanTarget_get_object(user, t) # "Found"
        \/ target_edit_check(user, t) # "OK"
        \/ target_update_response(user, t, ind) # "OK"
     THEN UNCHANGED <<targets, audit>>
     ELSE /\ Len(audit) < MaxAudit
          /\ targets' = (targets \ {t})
                          \cup {[plan |-> t.plan, indicator |-> ind]}
          /\ audit' = log_workflow_action(audit, user, plans[t.plan].unit,
                                          "UPDATE", t.plan)

\* the response of DELETE on a target: DestroyModelMixin.destroy ignores
\* what perform_destroy returns and answers 204
target_destroy_response(user, t) ==
  IF AnnualPlanTarget_get_object(user, t) # "Found"
  THEN AnnualPlanTarget_get_object(user, t)
  ELSE "OK"

\* AnnualPlanTargetViewSet.perform_destroy: the audit row, then the delete
target_perform_destroy(user, t) ==
  /\ UNCHANGED <<elsewhere, probe, profiles, plans, now, faults>>
  /\ IF \/ AnnualPlanTarget_get_object(user, t) # "Found"
        \/ target_edit_check(user, t) # "OK"
     THEN UNCHANGED <<targets, audit>>
     ELSE /\ Len(audit) < MaxAudit
          /\ targets' = targets \ {t}
          /\ audit' = log_workflow_action(audit, user, plans[t.plan].unit,
                                          "DELETE", t.plan)

\* plan 1 for the running year, plan 2 entered ahead for the next one
InitChild ==
  /\ profiles = HomeProfiles
  /\ plans = [p \in PlanIds |->
                IF p = 1 THEN NewPlan("U1", 2025) ELSE NewPlan("U2", 2026)]
  /\ targets \in InitialTargets
  /\ audit = <<>>
  /\ now = 0
  /\ faults = 0
  /\ probe = NoProbe
  /\ InitElsewhere

\* requests against the child routes, and submit to leave DRAFT
NextChild ==
  \/ Tick
  \/ \E user \in Actors, pk \in PlanIds, year \in Years :
        \/ submit(user, pk, year, "none")
        \/ \E ind \in Indicators : add_target(user, pk, year, ind)
  \/ \E user \in Actors, pk \in PlanIds, ind \in Indicators :
        target_perform_create(user, pk, ind)
  \/ \E user \in Actors, t \in TargetRows, ind \in Indicators :
        target_perform_update(user, t, ind)
  \/ \E user \in Actors, t \in TargetRows :
        target_perform_destroy(user, t)

SpecChild == InitChild /\ [][NextChild]_vars

\* --------------------------------------------- QuarterlyReportViewSet

\* a report as QuarterlyReport's defaults leave it
NewReport(unit, year) ==
  [unit |-> unit, year |-> year, quarter |-> 1, status |-> "DRAFT",
   submitted_at |-> NoTime, approved_by |-> None, approved_at |-> NoTime]

\* QuarterlyReportViewSet.get_queryset without a quarter parameter, for a user
\* that has a profile
QuarterlyReport_get_queryset(user, year) ==
  LET profile == get_user_profile(user) IN
    {r \in DOMAIN reports :
       /\ reports[r].year = year
       /\ (profile.role # "SUPERADMIN" => reports[r].unit = profile.unit)}

\* IsAuthenticated, then get_object() over get_queryset()
QuarterlyReport_get_object(user, pk, year) ==
  IF user = Anonymous THEN "NotAuthenticated"
  ELSE IF get_user_profile(user) = NoProfile THEN "ServerError"
  ELSE IF pk \notin QuarterlyReport_get_queryset(user, year) THEN "NotFound"
  ELSE "Found"

\* report.entries.exists()
entries_exist(pk) == \E e \in entries : e.report = pk

\* the early returns of the report's submit
report_submit_check(user, pk) ==
  IF ~can_user_access_unit(user, reports[pk].unit) THEN "PermissionDenied"
  ELSE IF reports[pk].status # "DRAFT" THEN "InvalidState"
  ELSE IF ~entries_exist(pk) THEN "EmptyEntity"
  ELSE "OK"

\* the early returns of the report's approve
report_approve_check(user, pk) ==
  IF ~can_user_access_unit(user, reports[pk].unit) THEN "PermissionDenied"
  ELSE IF get_user_profile(user).role \notin Approvers THEN "PermissionDenied"
  ELSE IF reports[pk].status # "SUBMITTED" THEN "InvalidState"
  ELSE "OK"

\* the early returns of the report's reject
report_reject_check(user, pk) ==
  IF ~can_user_access_unit(user, reports[pk].unit) THEN "PermissionDenied"
  ELSE IF get_user_profile(user).role \notin Approvers THEN "PermissionDenied"
  ELSE IF reports[pk].status # "SUBMITTED" THEN "InvalidState"
  ELSE "OK"

\* WorkflowAudit.objects.create(actor, unit, action, context_plan,
\* context_report): assigning anything but a Unit to the unit foreign key
\* raises ValueError and no row is inserted
WorkflowAudit_create(log, actor, unit, action, context_plan, context_report) ==
  IF unit \notin Units
  THEN [raised |-> TRUE, log |-> log]
  ELSE [raised |-> FALSE,
        log |-> Append(log, [actor |-> actor, unit |-> unit, action |-> action,
                             context_plan |-> context_plan,
                             context_report |-> context_report])]

\* BaseViewSet.log_action(unit, action, context_plan, context_report) as the
\* report routes call it: self.log_action(request.user, report.unit, 'SUBMIT',
\* context_report=report), which binds unit to the user, action to the unit
\* and context_plan to the action name
report_log_action(log, user, pk, action) ==
  WorkflowAudit_create(log, user, user, reports[pk].unit, action, pk)

\* the response of a report workflow route
report_response(user, pk, year, check, action) ==
  IF Respond(QuarterlyReport_get_object(user, pk, year), check, "none") # "OK"
  THEN Respond(QuarterlyReport_get_object(user, pk, year), check, "none")
  ELSE IF report_log_action(audit, user, pk, action).raised THEN "ServerError"
  ELSE "OK"

\* a report workflow route: get_object, the checks, report.save(), then
\* self.log_action(...), each write committing on its own
report_workflow(user, pk, year, check, row, action) ==
  /\ UNCHANGED <<profiles, plans, targets, now, faults, probe, entries, inflight,
                 units, call>>
  /\ IF Respond(QuarterlyReport_get_object(user, pk, year), check, "none") # "OK"
     THEN UNCHANGED <<reports, audit>>
     ELSE /\ reports' = [reports EXCEPT ![pk] = row]
          /\ Len(report_log_action(audit, user, pk, action).log) <= MaxAudit
          /\ audit' = report_log_action(audit, user, pk, action).log

\* the response of QuarterlyReportViewSet.submit
report_submit_response(user, pk, year) ==
  report_response(user, pk, year, report_submit_check(user, pk), "SUBMIT")

\* QuarterlyReportViewSet.submit
report_submit(user, pk, year) ==
  report_workflow(user, pk, year, report_submit_check(user, pk),
                  [reports[pk] EXCEPT !.status = "SUBMITTED",
                                      !.submitted_at = now], "SUBMIT")

\* the response of QuarterlyReportViewSet.approve
report_approve_response(user, pk, year) ==
  report_response(user, pk, year, report_approve_check(user, pk), "APPROVE")

\* QuarterlyReportViewSet.approve
report_approve(user, pk, year) ==
  report_workflow(user, pk, year, report_approve_check(user, pk),
                  [reports[pk] EXCEPT !.status = "APPROVED",
                                      !.approved_by = user,
                                      !.approved_at = now], "APPROVE")

\* the response of QuarterlyReportViewSet.reject
report_reject_response(user, pk, year) ==
  report_response(user, pk, year, report_reject_check(user, pk), "REJECT")

\* QuarterlyReportViewSet.reject
report_reject(user, pk, year) ==
  report_workflow(user, pk, year, report_reject_check(user, pk),
                  [reports[pk] EXCEPT !.status = "REJECTED"], "REJECT")

\* the loop of the report's bulk_approve over the listed ids, which ends at
\* the first write that raises; db = [reports, audit, count, raised]
RECURSIVE report_bulk_approve_loop(_, _, _, _)
report_bulk_approve_loop(ids, db, user, when) ==
  IF ids = <<>> \/ db.raised THEN db
  ELSE LET pid == Head(ids) IN
    IF pid \in DOMAIN db.reports /\ db.reports[pid].status = "SUBMITTED"
    THEN LET logged == report_log_action(db.audit, user, pid, "APPROVE") IN
      report_bulk_approve_loop(Tail(ids),
        [reports |-> [db.reports EXCEPT
                        ![pid] = [@ EXCEPT !.status = "APPROVED",
                                           !.approved_by = user,
                                           !.approved_at = when]],
         audit |-> logged.log,
         count |-> db.count + 1,
         raised |-> logged.raised],
        user, when)
    ELSE report_bulk_approve_loop(Tail(ids), db, user, when)

\* what the report's bulk_approve computes inside transaction.atomic()
report_bulk_approve_result(user, ids) ==
  report_bulk_approve_loop(ids, [reports |-> reports, audit |-> audit,
                                 count |-> 0, raised |-> FALSE], user, now)

\* the response of QuarterlyReportViewSet.bulk_approve
report_bulk_approve_response(user, ids) ==
  IF bulk_check(user, ids) # "OK" THEN bulk_check(user, ids)
  ELSE IF report_bulk_approve_result(user, ids).raised THEN "ServerError"
  ELSE "OK"

\* QuarterlyReportViewSet.bulk_approve: the atomic block is rolled back when a
\* write in it raises
report_bulk_approve(user, ids) ==
  /\ UNCHANGED <<profiles, plans, targets, now, faults, probe, entries, inflight,
                 units, call>>
  /\ IF report_bulk_approve_response(user, ids) # "OK"
     THEN UNCHANGED <<reports, audit>>
     ELSE /\ Len(report_bulk_approve_result(user, ids).audit) <= MaxAudit
          /\ reports' = report_bulk_approve_result(user, ids).reports
          /\ audit' = report_bulk_approve_result(user, ids).audit

\* QuarterlyReportViewSet has no bulk_reject route: the router answers 404
report_bulk_reject_response(user, ids) == "NotFound"

\* plan k and report k of one unit and year, their children entered alike
InitReport ==
  /\ profiles = HomeProfiles
  /\ plans = [p \in {1} |-> NewPlan("U1", 2025)]
  /\ targets \in {{}, {[plan |-> 1, indicator |-> "I1"]}}
  /\ reports = [r \in {1} |-> NewReport("U1", 2025)]
  /\ entries = {[report |-> t.plan, indicator |-> t.indicator] : t \in targets}
  /\ audit = <<>>
  /\ now = 0
  /\ faults = 0
  /\ probe = NoProbe
  /\ inflight = [w \in Workers |-> Idle]
  /\ units = UnitParent
  /\ call = NoCall

NextReport ==
  \/ Tick
  \/ \E user \in Actors, pk \in PlanIds, year \in Years :
        \/ submit(user, pk, year, "none")
        \/ approve(user, pk, year, "none")
        \/ reject(user, pk, year, "none")
        \/ report_submit(user, pk, year)
        \/ report_approve(user, pk, year)
        \/ report_reject(user, pk, year)
  \/ \E user \in Actors, ids \in IdLists :
        \/ bulk_approve(user, ids, "none")
        \/ bulk_reject(user, ids, "none")
        \/ report_bulk_approve(user, ids)

SpecReport == InitReport /\ [][NextReport]_vars

\* the response of a list route: IsAuthenticated, then get_queryset(), which
\* reads profile.role and raises AttributeError when there is no profile
list_response(user) ==
  IF user = Anonymous THEN "NotAuthenticated"
  ELSE IF get_user_profile(user) = NoProfile THEN "ServerError"
  ELSE "OK"

\* the plans a list of the plan resource returns
AnnualPlan_list(user, year) ==
  IF list_response(user) # "OK" THEN {}
  ELSE {plans[p] : p \in AnnualPlan_get_queryset(user, year)}

\* the targets a list of the target resource returns
AnnualPlanTarget_list(user) ==
  IF list_response(user) # "OK" THEN {}
  ELSE AnnualPlanTarget_get_queryset(user)

\* the reports a list of the report resource returns
QuarterlyReport_list(user, year) ==
  IF list_response(user) # "OK" THEN {}
  ELSE {reports[r] : r \in QuarterlyReport_get_queryset(user, year)}

\* an administrator, a user without a profile and a caller not logged in
RouteActors == {"root", "noprof", Anonymous}

\* every request of the plan, target and report resources, and the access
\* question, on a store that holds plan 1 and report 1
NextRoutes ==
  \/ \E user \in RouteActors, unit \in Units : can_access_unit(user, unit)
  \/ \E user \in RouteActors : perform_create(user)
  \/ \E user \in RouteActors, pk \in PlanIds, year \in Years :
        \/ submit(user, pk, year, "none")
        \/ approve(user, pk, year, "none")
        \/ reject(user, pk, year, "none")
        \/ perform_destroy(user, pk, year, "none")
        \/ \E st \in UpdateStatuses : perform_update(user, pk, year, "none", st)
        \/ report_submit(user, pk, year)
        \/ report_approve(user, pk, year)
        \/ report_reject(user, pk, year)
  \/ \E user \in RouteActors, ids \in IdLists :
        \/ bulk_approve(user, ids, "none")
        \/ bulk_reject(user, ids, "none")
        \/ report_bulk_approve(user, ids)
  \/ \E user \in RouteActors, pk \in PlanIds, ind \in Indicators :
        \/ \E year \in Years : add_target(user, pk, year, ind)
        \/ target_perform_create(user, pk, ind)
  \/ \E user \in RouteActors, t \in TargetRows :
        \/ \E ind \in Indicators : target_perform_update(user, t, ind)
        \/ target_perform_destroy(user, t)

SpecRoutes == InitReport /\ [][NextRoutes]_vars

\* ------------------------------------------- child records of a report

\* the entry rows a request may name
EntryRows == [report : PlanIds, indicator : Indicators]

\* QuarterlyIndicatorEntryViewSet.get_queryset without a report_id
\* parameter, for a user that has a profile
QuarterlyIndicatorEntry_get_queryset(user) ==
  LET profile == get_user_profile(user) IN
    {e \in entries :
       profile.role = "SUPERADMIN" \/ reports[e.report].unit = profile.unit}

\* IsAuthenticated, then get_object() over the entry queryset
QuarterlyIndicatorEntry_get_object(user, e) ==
  IF user = Anonymous THEN "NotAuthenticated"
  ELSE IF get_user_profile(user) = NoProfile THEN "ServerError"
  ELSE IF e \notin QuarterlyIndicatorEntry_get_queryset(user) THEN "NotFound"
  ELSE "Found"

\* the early returns of QuarterlyReportViewSet.add_entry and what follows
\* them: with an indicator of the report's unit, serializer.save(report=..,
\* indicator=.., updated_by=..) reaches QuarterlyIndicatorEntrySerializer
\* .create, which passes `indicator` and `updated_by` twice to
\* QuarterlyIndicatorEntry.objects.create() and raises TypeError
add_entry_check(user, pk, ind) ==
  IF ~can_user_access_unit(user, reports[pk].unit) THEN "PermissionDenied"
  ELSE IF reports[pk].status # "DRAFT" THEN "InvalidState"
  ELSE IF IndicatorOwner[ind] # reports[pk].unit THEN "InvalidIndicator"
  ELSE "ServerError"

\* the response of QuarterlyReportViewSet.add_entry
add_entry_response(user, pk, year, ind) ==
  Respond(QuarterlyReport_get_object(user, pk, year),
          add_entry_check(user, pk, ind), "none")

\* QuarterlyReportViewSet.add_entry: no row is ever inserted
add_entry(user, pk, year, ind) ==
  UNCHANGED <<profiles, plans, targets, audit, now, faults, probe, reports,
              entries, inflight, units, call>>

\* the Response objects QuarterlyIndicatorEntryViewSet.perform_create
\* returns early; "OK" when it goes on to serializer.save(report=report,
\* updated_by=user)
entry_create_check(user, report_id) ==
  IF report_id \notin DOMAIN reports THEN "NotFound"
  ELSE IF ~can_user_access_unit(user, reports[report_id].unit)
  THEN "PermissionDenied"
  ELSE IF reports[report_id].status # "DRAFT" THEN "InvalidState"
  ELSE "OK"

\* the response of POST on the entry resource: 201 after an early return of
\* perform_create; otherwise QuarterlyIndicatorEntrySerializer.create passes
\* `updated_by` twice and raises TypeError
entry_create_response(user, report_id, ind) ==
  IF user = Anonymous THEN "NotAuthenticated"
  ELSE IF entry_create_check(user, report_id) # "OK" THEN "OK"
  ELSE "ServerError"

\* QuarterlyIndicatorEntryViewSet.perform_create: no row is ever inserted
entry_perform_create(user, report_id, ind) ==
  UNCHANGED <<profiles, plans, targets, audit, now, faults, probe, reports,
              entries, inflight, units, call>>

\* the Response objects perform_update and perform_destroy of the entry
\* resource return early
entry_edit_check(user, e) ==
  IF ~can_user_access_unit(user, reports[e.report].unit)
  THEN "PermissionDenied"
  ELSE IF reports[e.report].status # "DRAFT" THEN "InvalidState"
  ELSE "OK"

\* the response of PUT/PATCH on an entry: 200 after an early return of
\* perform_update; otherwise the row is saved and self.log_action(
\* request.user, report.unit, 'UPDATE', ...) raises
entry_update_response(user, e, ind) ==
  IF QuarterlyIndicatorEntry_get_object(user, e) # "Found"
  THEN QuarterlyIndicatorEntry_get_object(user, e)
  ELSE IF entry_edit_check(user, e) # "OK" THEN "OK"
  ELSE "ServerError"

\* QuarterlyIndicatorEntryViewSet.perform_update under
\* QuarterlyIndicatorEntrySerializer.update, which takes any indicator: the
\* row is written unless (report, indicator) is taken, no audit row follows
entry_perform_update(user, e, ind) ==
  /\ UNCHANGED <<profiles, plans, targets, audit, now, faults, probe, reports,
                 inflight, units, call>>
  /\ IF \/ QuarterlyIndicatorEntry_get_object(user, e) # "Found"
        \/ entry_edit_check(user, e) # "OK"
        \/ (ind # e.indicator
              /\ [report |-> e.report, indicator |-> ind] \in entries)
     THEN UNCHANGED entries
     ELSE entries' = (entries \ {e})
                       \cup {[report |-> e.report, indicator |-> ind]}

\* the response of DELETE on an entry: 204 after an early return of
\* perform_destroy; otherwise self.log_action(...) raises before the delete
entry_destroy_response(user, e) ==
  IF QuarterlyIndicatorEntry_get_object(user, e) # "Found"
  THEN QuarterlyIndicatorEntry_get_object(user, e)
  ELSE IF entry_edit_check(user, e) # "OK" THEN "OK"
  ELSE "ServerError"

\* QuarterlyIndicatorEntryViewSet.perform_destroy: the delete is never
\* reached
entry_perform_destroy(user, e) ==
  UNCHANGED <<profiles, plans, targets, audit, now, faults, probe, reports,
              entries, inflight, units, call>>

\* plan 1 and report 1 of unit U1, DRAFT, with the children an administrator
\* entered
InitChildren ==
  /\ profiles = HomeProfiles
  /\ plans = [p \in {1} |-> NewPlan("U1", 2025)]
  /\ targets \in {{}, {[plan |-> 1, indicator |-> "I1"]}}
  /\ reports = [r \in {1} |-> NewReport("U1", 2025)]
  /\ entries \in {{}, {[report |-> 1, indicator |-> "I1"]}}
  /\ audit = <<>>
  /\ now = 0
  /\ faults = 0
  /\ probe = NoProbe
  /\ inflight = [w \in Workers |-> Idle]
  /\ units = UnitParent
  /\ call = NoCall

\* the workflow and the child routes of plans and of reports, one request
\* after the other
NextChildren ==
  \/ \E user \in Actors, pk \in PlanIds, year \in Years :
        \/ submit(user, pk, year, "none")
        \/ approve(user, pk, year, "none")
        \/ reject(user, pk, year, "none")
        \/ report_submit(user, pk, year)
        \/ report_approve(user, pk, year)
        \/ report_reject(user, pk, year)
        \/ \E ind \in Indicators :
              \/ add_target(user, pk, year, ind)
              \/ add_entry(user, pk, year, ind)
  \/ \E user \in Actors, ids \in IdLists :
        \/ bulk_approve(user, ids, "none")
        \/ bulk_reject(user, ids, "none")
        \/ report_bulk_approve(user, ids)
  \/ \E user \in Actors, pk \in PlanIds, ind \in Indicators :
        \/ target_perform_create(user, pk, ind)
        \/ entry_perform_create(user, pk, ind)
  \/ \E user \in Actors, t \in TargetRows, ind \in Indicators :
        target_perform_update(user, t, ind)
  \/ \E user \in Actors, e \in EntryRows, ind \in Indicators :
        entry_perform_update(user, e, ind)
  \/ \E user \in Actors, t \in TargetRows :
        target_perform_destroy(user, t)
  \/ \E user \in Actors, e \in EntryRows :
        entry_perform_destroy(user, e)

SpecChildren == InitChildren /\ [][NextChildren]_vars

\* ------------------------------------------------- entry windows

\* the years whose windows are asked about, a leap year among them
WindowYears == {2024, 2025}

\* instants are seconds from 1 January 00:00 of the first of these years
EpochYear == CHOOSE y \in WindowYears : \A z \in WindowYears : y <= z

IsLeap(y) == (y % 4 = 0 /\ y % 100 # 0) \/ y % 400 = 0

DaysInMonth(y, m) ==
  CASE m \in {4, 6, 9, 11} -> 30
    [] m = 2 -> IF IsLeap(y) THEN 29 ELSE 28
    [] OTHER -> 31

RECURSIVE DaysBeforeMonth(_, _)
DaysBeforeMonth(y, m) ==
  IF m = 1 THEN 0 ELSE DaysBeforeMonth(y, m - 1) + DaysInMonth(y, m - 1)

RECURSIVE DaysBeforeYear(_)
DaysBeforeYear(y) ==
  IF y <= EpochYear THEN 0
  ELSE DaysBeforeYear(y - 1) + (IF IsLeap(y - 1) THEN 366 ELSE 365)

\* timezone.timedelta(days=n)
timedelta(days) == days * 24 * 60 * 60

\* timezone.datetime(y, mo, d, h, mi, sec, tzinfo=current timezone)
datetime(y, mo, d, h, mi, sec) ==
  timedelta(DaysBeforeYear(y) + DaysBeforeMonth(y, mo) + d - 1)
    + (h * 60 + mi) * 60 + sec

\* AnnualPlan.default_entry_window with a window that ends with January
AnnualPlan_default_entry_window_month(year) ==
  [start |-> datetime(year, 1, 1, 0, 0, 0), end |-> datetime(year, 2, 1, 0, 0, 0)]

\* AnnualPlan.default_entry_window, to the second
AnnualPlan_default_entry_window(year) ==
  [start |-> datetime(year, 1, 1, 0, 0, 0),
   end   |-> datetime(year, 1, 1, 0, 0, 0) + timedelta(DefaultWindowDays)]

\* is_within_entry_window that keeps the bound that is set and takes only the
\* missing one from the default window
AnnualPlan_is_within_entry_window_partial(year, start, end, when) ==
  LET d == AnnualPlan_default_entry_window(year)
      lo == IF start = NoTime THEN d.start ELSE start
      hi == IF end = NoTime THEN d.end ELSE end
  IN lo <= when /\ when <= hi

\* AnnualPlan.is_within_entry_window(when) of a plan whose entry_window_start
\* and entry_window_end are `start` and `end`, NoTime standing for null
AnnualPlan_is_within_entry_window(year, start, end, when) ==
  LET d == AnnualPlan_default_entry_window(year)
      w == IF start = NoTime \/ end = NoTime THEN d
           ELSE [start |-> start, end |-> end]
  IN w.start <= when /\ when <= w.end

\* days after the end of the quarter a report stays open by default
ReportWindowDays == 15

\* QuarterlyReport.quarter_date_range
quarter_date_range(year, quarter) ==
  CASE quarter = 1 -> [start |-> datetime(year, 1, 1, 0, 0, 0),
                       end   |-> datetime(year, 3, 31, 23, 59, 59)]
    [] quarter = 2 -> [start |-> datetime(year, 4, 1, 0, 0, 0),
                       end   |-> datetime(year, 6, 30, 23, 59, 59)]
    [] quarter = 3 -> [start |-> datetime(year, 7, 1, 0, 0, 0),
                       end   |-> datetime(year, 9, 30, 23, 59, 59)]
    [] OTHER -> [start |-> datetime(year, 10, 1, 0, 0, 0),
                 end   |-> datetime(year, 12, 31, 23, 59, 59)]

\* QuarterlyReport.default_entry_window that opens with the quarter
QuarterlyReport_default_entry_window_early(year, quarter) ==
  [start |-> quarter_date_range(year, quarter).start,
   end   |-> quarter_date_range(year, quarter).end + timedelta(ReportWindowDays)]

\* QuarterlyReport.default_entry_window
QuarterlyReport_default_entry_window(year, quarter) ==
  [start |-> quarter_date_range(year, quarter).end,
   end   |-> quarter_date_range(year, quarter).end + timedelta(ReportWindowDays)]

\* QuarterlyReport.is_within_entry_window(when)
QuarterlyReport_is_within_entry_window(year, quarter, start, end, when) ==
  LET d == QuarterlyReport_default_entry_window(year, quarter)
      w == IF start = NoTime \/ end = NoTime THEN d
           ELSE [start |-> start, end |-> end]
  IN w.start <= when /\ when <= w.end

Quarters == 1..4

\* the values entry_window_start and entry_window_end take: null, or a day
\* inside a default window
WindowFields(year) ==
  {NoTime, datetime(year, 1, 20, 0, 0, 0), datetime(year, 4, 5, 0, 0, 0)}

\* the instants asked about: the days the windows open and close, a second
\* before and after each, and days inside and outside them
Instants(year) ==
  LET edges == {datetime(year, 1, 1, 0, 0, 0), datetime(year, 1, 31, 0, 0, 0),
                datetime(year, 2, 1, 0, 0, 0)}
                 \cup {quarter_date_range(year, q).end : q \in Quarters}
                 \cup {quarter_date_range(year, q).end + timedelta(ReportWindowDays) :
                         q \in Quarters}
                 \cup (WindowFields(year) \ {NoTime})
      days == {datetime(year, 1, 15, 0, 0, 0), datetime(year, 2, 15, 0, 0, 0),
               datetime(year, 4, 1, 0, 0, 0), datetime(year, 4, 10, 0, 0, 0),
               datetime(year, 5, 1, 0, 0, 0)}
  IN {t \in UNION {{e - 1, e, e + 1} : e \in edges} \cup days : t >= 0}

\* plan.is_within_entry_window(when) is asked, once in a run
plan_window_call(year, start, end, when) ==
  /\ call.fn = None
  /\ call' = [fn |-> "AnnualPlan.is_within_entry_window", year |-> year,
              quarter |-> 0, start |-> start, end |-> end, when |-> when,
              result |-> AnnualPlan_is_within_entry_window(year, start, end, when)]
  /\ UNCHANGED <<profiles, plans, targets, audit, now, faults, probe, reports,
                 entries, inflight, units>>

\* report.is_within_entry_window(when) is asked, once in a run
report_window_call(year, quarter, start, end, when) ==
  /\ call.fn = None
  /\ call' = [fn |-> "QuarterlyReport.is_within_entry_window", year |-> year,
              quarter |-> quarter, start |-> start, end |-> end, when |-> when,
              result |-> QuarterlyReport_is_within_entry_window(year, quarter,
                                                                start, end, when)]
  /\ UNCHANGED <<profiles, plans, targets, audit, now, faults, probe, reports,
                 entries, inflight, units>>

\* an empty store: the window methods read the row they are called on only
InitWindow ==
  /\ profiles = HomeProfiles
  /\ plans = << >>
  /\ targets = {}
  /\ audit = <<>>
  /\ now = 0
  /\ faults = 0
  /\ probe = NoProbe
  /\ InitElsewhere

NextWindow ==
  \E year \in WindowYears :
    \E start \in WindowFields(year), end \in WindowFields(year),
       when \in Instants(year) :
         \/ plan_window_call(year, start, end, when)
         \/ \E quarter \in Quarters :
               report_window_call(year, quarter, start, end, when)

SpecWindow == InitWindow /\ [][NextWindow]_vars

\* ------------------------------------------------- views/units.py UnitViewSet

MaxUnits == 4   \* rows of the Unit table

\* primary keys of the Unit table in order of creation
UnitNames == <<"U1", "U2", "U3", "U4", "U5">>

\* the primary key the next created Unit gets
next_unit == UnitNames[Cardinality(DOMAIN units) + 1]

\* UnitViewSet.get_queryset
Unit_get_queryset(user) ==
  LET profile == get_user_profile(user) IN
    IF profile.role = "SUPERADMIN" THEN DOMAIN units
    ELSE {u \in DOMAIN units : u = profile.unit}

\* UnitSerializer's field `parent`: null or the key of an existing Unit
UnitSerializer_parent == DOMAIN units \cup {None}

\* the keys a request names, of existing rows or not
UnitKeys == {UnitNames[i] : i \in DOMAIN UnitNames}

\* the values a request body gives `parent`
ParentInputs == {None} \cup UnitKeys

\* POST /units/: the row is created with the parent of the request body
Unit_create_response(user, parent) ==
  IF user = Anonymous THEN "NotAuthenticated"
  ELSE IF parent \notin UnitSerializer_parent THEN "BadRequest"
  ELSE "Created"

Unit_create(user, parent) ==
  /\ Unit_create_response(user, parent) = "Created"
  /\ Cardinality(DOMAIN units) < MaxUnits
  /\ units' = [u \in DOMAIN units \cup {next_unit} |->
                 IF u = next_unit THEN parent ELSE units[u]]
  /\ UNCHANGED <<profiles, plans, targets, audit, now, faults, probe,
                 reports, entries, inflight, call>>

\* PUT/PATCH /units/{pk}/: the row's parent becomes that of the request body
Unit_update_response(user, pk, parent) ==
  IF user = Anonymous THEN "NotAuthenticated"
  ELSE IF get_user_profile(user) = NoProfile THEN "ServerError"
  ELSE IF pk \notin Unit_get_queryset(user) THEN "NotFound"
  ELSE IF parent \notin UnitSerializer_parent THEN "BadRequest"
  ELSE "OK"

Unit_update(user, pk, parent) ==
  /\ Unit_update_response(user, pk, parent) = "OK"
  /\ units' = [units EXCEPT ![pk] = parent]
  /\ UNCHANGED <<profiles, plans, targets, audit, now, faults, probe,
                 reports, entries, inflight, call>>

InitUnits ==
  /\ profiles = HomeProfiles
  /\ plans = << >>
  /\ targets = {}
  /\ audit = << >>
  /\ now = 0
  /\ faults = 0
  /\ probe = NoProbe
  /\ InitElsewhere

NextUnits ==
  \E user \in Actors, pk \in UnitKeys, parent \in ParentInputs :
    \/ Unit_create(user, parent)
    \/ Unit_update(user, pk, parent)

SpecUnits == InitUnits /\ [][NextUnits]_vars

\* ------------------------------------------------- views/api.py progress

MaxChildren == 4   \* targets of a plan, entries of a report

\* an administrator's rows: the first k indicators planned for plan 1
PlannedRows(k) == {[plan |-> 1, indicator |-> i] : i \in 1..k}

\* the first k indicators reported in report 1
ReportedRows(k) == {[report |-> 1, indicator |-> i] : i \in 1..k}

RECURSIVE gcd(_, _)
gcd(a, b) == IF b = 0 THEN a ELSE gcd(b, a % b)

\* the number n / d, in lowest terms
Fraction(n, d) == [num |-> n \div gcd(n, d), den |-> d \div gcd(n, d)]

\* a percentage that forgets the factor 100
completion_percentage_share(completed_entries, total_targets) ==
  IF total_targets > 0 THEN Fraction(completed_entries, total_targets)
  ELSE Fraction(0, 1)

\* (completed_entries / total_targets * 100) if total_targets > 0 else 0
completion_percentage(completed_entries, total_targets) ==
  IF total_targets > 0 THEN Fraction(completed_entries * 100, total_targets)
  ELSE Fraction(0, 1)

\* the JSON body of both progress views
progress(total_targets, completed_entries) ==
  [total_targets |-> total_targets,
   completed_entries |-> completed_entries,
   completion_percentage |->
     completion_percentage(completed_entries, total_targets)]

NoProgress == [total_targets |-> 0, completed_entries |-> 0,
               completion_percentage |-> Fraction(0, 1)]

\* api.py get_annual_plan_progress: the targets of the plan against the
\* entries of every report of the plan's unit and year
get_annual_plan_progress(user, plan_id) ==
  IF user = Anonymous THEN [status |-> "Redirect", body |-> NoProgress]
  ELSE IF plan_id \notin DOMAIN plans
  THEN [status |-> "ServerError", body |-> NoProgress]
  ELSE IF ~can_user_access_unit(user, plans[plan_id].unit)
  THEN [status |-> "PermissionDenied", body |-> NoProgress]
  ELSE
    LET plan == plans[plan_id]
        total_targets == Cardinality({t \in targets : t.plan = plan_id})
        completed_entries ==
          Cardinality({e \in entries :
                         /\ reports[e.report].unit = plan.unit
                         /\ reports[e.report].year = plan.year})
    IN [status |-> "OK", body |-> progress(total_targets, completed_entries)]

\* api.py get_quarterly_progress: the entries of the report against the
\* targets of the APPROVED plan of the report's unit and year, if there is one
get_quarterly_progress(user, report_id) ==
  IF user = Anonymous THEN [status |-> "Redirect", body |-> NoProgress]
  ELSE IF report_id \notin DOMAIN reports
  THEN [status |-> "ServerError", body |-> NoProgress]
  ELSE IF ~can_user_access_unit(user, reports[report_id].unit)
  THEN [status |-> "PermissionDenied", body |-> NoProgress]
  ELSE
    LET report == reports[report_id]
        annual_plan == {p \in DOMAIN plans :
                          /\ plans[p].year = report.year
                          /\ plans[p].unit = report.unit
                          /\ plans[p].status = "APPROVED"}
        total_targets ==
          Cardinality({t \in targets : t.plan \in annual_plan})
        completed_entries == Cardinality({e \in entries : e.report = report_id})
    IN [status |-> "OK", body |-> progress(total_targets, completed_entries)]

annual_plan_progress_call(user, plan_id) ==
  /\ call.fn = None
  /\ call' = [fn |-> "get_annual_plan_progress", user |-> user, id |-> plan_id,
              result |-> get_annual_plan_progress(user, plan_id)]
  /\ UNCHANGED <<profiles, plans, targets, audit, now, faults, probe,
                 reports, entries, inflight, units>>

quarterly_progress_call(user, report_id) ==
  /\ call.fn = None
  /\ call' = [fn |-> "get_quarterly_progress", user |-> user, id |-> report_id,
              result |-> get_quarterly_progress(user, report_id)]
  /\ UNCHANGED <<profiles, plans, targets, audit, now, faults, probe,
                 reports, entries, inflight, units>>

\* plan 1 and report 1 of unit U1 for 2025, report 2 of unit U2 with one
\* entry; the plan DRAFT or APPROVED, any number of targets and of entries
InitProgress ==
  /\ profiles = HomeProfiles
  /\ \E status \in {"DRAFT", "APPROVED"} :
       plans = [p \in {1} |-> [NewPlan("U1", 2025) EXCEPT !.status = status]]
  /\ \E k \in 0..MaxChildren : targets = PlannedRows(k)
  /\ reports = [r \in {1, 2} |->
                  NewReport(IF r = 1 THEN "U1" ELSE "U2", 2025)]
  /\ \E k \in 0..MaxChildren :
       entries = ReportedRows(k) \cup {[report |-> 2, indicator |-> 1]}
  /\ audit = << >>
  /\ now = 0
  /\ faults = 0
  /\ probe = NoProbe
  /\ inflight = [w \in Workers |-> Idle]
  /\ units = UnitParent
  /\ call = NoCall

NextProgress ==
  \E user \in Actors, id \in {1, 2, 3} :
    \/ annual_plan_progress_call(user, id)
    \/ quarterly_progress_call(user, id)

SpecProgress == InitProgress /\ [][NextProgress]_vars

\* --------------------------------- requests served side by side

\* the workflow routes of AnnualPlanViewSet
WorkflowOps == {"submit", "approve", "reject"}

\* the early returns of a workflow route
workflow_check(op, user, pk) ==
  CASE op = "submit" -> submit_check(user, pk)
    [] op = "approve" -> approve_check(user, pk)
    [] op = "reject" -> reject_check(user, pk)

\* the instance a workflow route has changed in memory, before plan.save()
workflow_instance(op, user, pk) ==
  CASE op = "submit" -> submit_effect(plans[pk], now)
    [] op = "approve" -> approve_effect(plans[pk], user, now)
    [] op = "reject" -> reject_effect(plans[pk])

\* the action a workflow route logs
workflow_action(op) ==
  CASE op = "submit" -> "SUBMIT"
    [] op = "approve" -> "APPROVE"
    [] op = "reject" -> "REJECT"

\* a worker reads the plan with get_object and runs the checks of the route;
\* a request that passes holds its changed instance, the others end here
workflow_begin(w, op, user, pk, year) ==
  /\ inflight[w] = Idle
  /\ IF Respond(AnnualPlan_get_object(user, pk, year),
                workflow_check(op, user, pk), "none") # "OK"
     THEN inflight' = inflight
     ELSE inflight' = [inflight EXCEPT ![w] =
                         [op |-> op, user |-> user, pk |-> pk, pc |-> "checked",
                          instance |-> workflow_instance(op, user, pk)]]
  /\ UNCHANGED <<profiles, plans, targets, audit, now, faults, probe,
                 reports, entries, units, call>>

\* plan.save(): every column of the row is written from the instance held
workflow_save(w) ==
  /\ inflight[w].pc = "checked"
  /\ plans' = [plans EXCEPT ![inflight[w].pk] = inflight[w].instance]
  /\ inflight' = [inflight EXCEPT ![w].pc = "saved"]
  /\ UNCHANGED <<profiles, targets, audit, now, faults, probe, reports, entries,
                 units, call>>

\* self.log_action(...), then the 200 response
workflow_log(w) ==
  /\ inflight[w].pc = "saved"
  /\ Len(audit) < MaxAudit
  /\ audit' = log_workflow_action(audit, inflight[w].user,
                                  inflight[w].instance.unit,
                                  workflow_action(inflight[w].op), inflight[w].pk)
  /\ inflight' = [inflight EXCEPT ![w] = Idle]
  /\ UNCHANGED <<profiles, plans, targets, now, faults, probe, reports, entries,
                 units, call>>

NextRace ==
  \/ Tick
  \/ \E w \in Workers, op \in WorkflowOps, user \in Actors, pk \in PlanIds,
        year \in Years : workflow_begin(w, op, user, pk, year)
  \/ \E w \in Workers : workflow_save(w)
  \/ \E w \in Workers : workflow_log(w)

SpecRace == Init /\ [][NextRace]_vars

\* ---------------------------------------------------------------- claims

\* a step that changes the state
Changed == vars' # vars

\* the guard the claims state for approve and reject
ApproverGuard(user, pk) ==
  /\ plans[pk].status = "SUBMITTED"
  /\ can_user_access_unit(user, plans[pk].unit)
  /\ get_user_profile(user).role \in Approvers

\* the users that have a UserProfile row
Profiled == {u \in Users : profiles[u] # NoProfile}

\* the plans an id list names
Listed(ids) == {ids[i] : i \in DOMAIN ids}

\* C1: submit(p) by a succeeds iff p is DRAFT, has a target and a can access
\* p's unit; a successful submit leaves p SUBMITTED with submitted_at set and
\* appends exactly one SUBMIT audit row for p
C1_Submit ==
  /\ [](\A user \in Actors, pk \in DOMAIN plans :
         submit_response(user, pk, plans[pk].year, "none") = "OK"
           <=> /\ plans[pk].status = "DRAFT"
               /\ targets_exist(pk)
               /\ can_user_access_unit(user, plans[pk].unit))
  /\ [][Changed =>
        \A user \in Actors, pk \in PlanIds, year \in Years :
          (submit_response(user, pk, year, "none") = "OK"
             /\ submit(user, pk, year, "none"))
          => /\ plans'[pk].status = "SUBMITTED"
             /\ plans'[pk].submitted_at # NoTime
             /\ audit' = Append(audit,
                                AuditRow(user, plans[pk].unit, "SUBMIT", pk))]_vars

\* C1 witness: a plan was submitted and its SUBMIT row is the newest audit row
C1_Witness ==
  \E pk \in DOMAIN plans :
    /\ plans[pk].status = "SUBMITTED"
    /\ plans[pk].submitted_at # NoTime
    /\ Len(audit) > 0
    /\ audit[Len(audit)].action = "SUBMIT"
    /\ audit[Len(audit)].context_plan = pk

\* C2: approve(p) by a succeeds only when p is SUBMITTED, a can access p's
\* unit and a is an approver; otherwise the outcome is PermissionDenied or
\* InvalidState
C2_ApproveOutcome ==
  \A user \in Profiled, pk \in DOMAIN plans :
    LET r == approve_response(user, pk, plans[pk].year, "none") IN
      /\ r = "OK" => ApproverGuard(user, pk)
      /\ r # "OK" => r \in {"PermissionDenied", "InvalidState"}

\* C3: reject succeeds exactly when approve would; a successful reject leaves
\* p REJECTED, leaves approved_by and approved_at as they were (unset stays
\* unset) and appends exactly one REJECT audit row for p
C3_Reject ==
  /\ [](\A user \in Actors, pk \in DOMAIN plans :
         /\ reject_response(user, pk, plans[pk].year, "none")
              = approve_response(user, pk, plans[pk].year, "none")
         /\ reject_response(user, pk, plans[pk].year, "none") = "OK"
              => ApproverGuard(user, pk))
  /\ [][Changed =>
        \A user \in Actors, pk \in PlanIds, year \in Years :
          (reject_response(user, pk, year, "none") = "OK"
             /\ reject(user, pk, year, "none"))
          => /\ plans'[pk].status = "REJECTED"
             /\ plans'[pk].approved_by = plans[pk].approved_by
             /\ plans'[pk].approved_at = plans[pk].approved_at
             /\ (plans[pk].approved_at = NoTime => plans'[pk].approved_at = NoTime)
             /\ (plans[pk].approved_by = None => plans'[pk].approved_by = None)
             /\ audit' = Append(audit,
                                AuditRow(user, plans[pk].unit, "REJECT", pk))]_vars

\* C3 witness: a plan was rejected, its approval fields unset, its REJECT row
\* the newest audit row, at a time a stamp would show
C3_Witness ==
  \E pk \in DOMAIN plans :
    /\ plans[pk].status = "REJECTED"
    /\ plans[pk].approved_by = None
    /\ plans[pk].approved_at = NoTime
    /\ Len(audit) > 0
    /\ audit[Len(audit)].action = "REJECT"
    /\ audit[Len(audit)].context_plan = pk

\* C4: once a plan is APPROVED or REJECTED no request changes its status
C4_Terminal ==
  [][\A pk \in DOMAIN plans \cap DOMAIN plans' :
       plans[pk].status \in {"APPROVED", "REJECTED"}
         => plans'[pk].status = plans[pk].status]_vars

\* C5: can_access is false for an anonymous actor or one without a profile,
\* true for every unit for SUPERADMIN, and otherwise true exactly for the
\* actor's home unit; the parent unit's user gets no access to the child
C5_CanAccess ==
  probe # NoProbe =>
    LET profile == IF probe.user = Anonymous THEN NoProfile
                   ELSE profiles[probe.user]
    IN /\ profile = NoProfile => ~probe.allowed
       /\ (profile # NoProfile /\ profile.role = "SUPERADMIN") => probe.allowed
       /\ (profile # NoProfile /\ profile.role # "SUPERADMIN")
            => (probe.allowed <=> profile.unit = probe.unit)
       /\ (profile # NoProfile /\ profile.role # "SUPERADMIN"
             /\ UnitParent[probe.unit] = profile.unit) => ~probe.allowed

\* C5 witness: a non-SUPERADMIN user of the parent unit asked about the child
\* unit and was refused
C5_Witness ==
  /\ probe # NoProbe
  /\ probe.user # Anonymous
  /\ profiles[probe.user] # NoProfile
  /\ profiles[probe.user].role # "SUPERADMIN"
  /\ UnitParent[probe.unit] = profiles[probe.user].unit
  /\ ~probe.allowed

\* C6: a plan that becomes APPROVED or REJECTED was moved there by an actor
\* whose role is SUPERADMIN or STRATEGIC_AFFAIRS (the actor of the audit row
\* the move writes)
C6_ApproverOnly ==
  [][\A pk \in DOMAIN plans \cap DOMAIN plans' :
       (plans'[pk].status \in {"APPROVED", "REJECTED"}
          /\ plans'[pk].status # plans[pk].status)
       => /\ Len(audit') > 0
          /\ audit'[Len(audit')].context_plan = pk
          /\ get_user_profile(audit'[Len(audit')].actor).role \in Approvers]_vars

\* C7: approve of an APPROVED plan by an approver with access answers
\* InvalidState, writes no audit row and leaves the plan as it was
C7_SecondApprove ==
  /\ [](\A user \in Actors, pk \in DOMAIN plans :
         (plans[pk].status = "APPROVED"
            /\ can_user_access_unit(user, plans[pk].unit)
            /\ get_user_profile(user).role \in Approvers)
         => approve_response(user, pk, plans[pk].year, "none") = "InvalidState")
  /\ [][Changed =>
        \A user \in Actors, pk \in DOMAIN plans, year \in Years :
          (plans[pk].status = "APPROVED" /\ approve(user, pk, year, "none"))
          => UNCHANGED <<plans, audit>>]_vars

\* C7 witness: a plan was approved at an earlier instant than now, so a second
\* stamp would show
C7_Witness ==
  \E pk \in DOMAIN plans, i \in DOMAIN audit :
    /\ plans[pk].status = "APPROVED"
    /\ plans[pk].approved_by # None
    /\ plans[pk].approved_at # NoTime
    /\ plans[pk].approved_at < now
    /\ audit[i].action = "APPROVE"
    /\ audit[i].context_plan = pk

\* C8: bulk_approve moves exactly the listed plans that are SUBMITTED, leaves
\* every other plan as it was, reports the number moved and appends that many
\* APPROVE audit rows, one per moved plan
C8_BulkApprove ==
  /\ [](\A user \in Actors, ids \in IdLists :
         bulk_approve_response(user, ids, "none") = "OK"
         => bulk_approve_result(user, ids).count
              = Cardinality({pk \in DOMAIN plans \cap Listed(ids) :
                               plans[pk].status = "SUBMITTED"}))
  /\ [][Changed =>
        \A user \in Actors, ids \in IdLists :
          (bulk_approve_response(user, ids, "none") = "OK"
             /\ bulk_approve(user, ids, "none"))
          => LET moved == {pk \in DOMAIN plans \cap Listed(ids) :
                             plans[pk].status = "SUBMITTED"}
                 n == Cardinality(moved)
             IN /\ DOMAIN plans' = DOMAIN plans
                /\ \A pk \in moved :
                     /\ plans'[pk].status = "APPROVED"
                     /\ plans'[pk].approved_by = user
                     /\ plans'[pk].approved_at = now
                /\ \A pk \in DOMAIN plans \ moved : plans'[pk] = plans[pk]
                /\ Len(audit') = Len(audit) + n
                /\ SubSeq(audit', 1, Len(audit)) = audit
                /\ \A i \in (Len(audit) + 1)..Len(audit') :
                     /\ audit'[i].action = "APPROVE"
                     /\ audit'[i].context_plan \in moved
                /\ \A pk \in moved :
                     \E i \in (Len(audit) + 1)..Len(audit') :
                       audit'[i].context_plan = pk]_vars

\* C8 witness: both plans approved by strat, their APPROVE rows the two newest
\* audit rows (a bulk_approve that moved two plans)
C8_Witness ==
  /\ Len(audit) >= 2
  /\ audit[Len(audit)].action = "APPROVE"
  /\ audit[Len(audit) - 1].action = "APPROVE"
  /\ audit[Len(audit)].context_plan # audit[Len(audit) - 1].context_plan
  /\ audit[Len(audit)].actor = "strat"
  /\ audit[Len(audit) - 1].actor = "strat"
  /\ \A pk \in PlanIds : pk \in DOMAIN plans /\ plans[pk].status = "APPROVED"

\* C9: every successful create, submit, approve, reject, update or delete
\* leaves exactly one new audit row tagged with the operation, the acting user
\* and the plan's unit
C9_OneAuditRow ==
  [][Changed =>
      \A user \in Actors, pk \in DOMAIN plans, year \in Years :
        LET added(action) ==
              /\ Len(audit') = Len(audit) + 1
              /\ SubSeq(audit', 1, Len(audit)) = audit
              /\ audit'[Len(audit')] = AuditRow(user, plans[pk].unit, action, pk)
        IN /\ (submit_response(user, pk, year, "none") = "OK"
                 /\ submit(user, pk, year, "none")) => added("SUBMIT")
           /\ (approve_response(user, pk, year, "none") = "OK"
                 /\ approve(user, pk, year, "none")) => added("APPROVE")
           /\ (reject_response(user, pk, year, "none") = "OK"
                 /\ reject(user, pk, year, "none")) => added("REJECT")
           /\ (perform_update_response(user, pk, year, "none") = "OK"
                 /\ \E st \in UpdateStatuses :
                      perform_update(user, pk, year, "none", st))
                => added("UPDATE")
           /\ (perform_destroy_response(user, pk, year, "none") = "OK"
                 /\ perform_destroy(user, pk, year, "none")) => added("DELETE")]_vars

\* C10: a mutation is persisted if and only if its audit row is: a step that
\* changes a plan also adds to the audit log, and a request whose store write
\* raised and left the plans as they were leaves no audit row
C10_Atomic ==
  [][/\ plans' # plans => audit' # audit
     /\ (faults' # faults /\ plans' = plans) => audit' = audit]_vars

\* C11: the audit log is append-only: every step leaves the rows already
\* written in place and unchanged, so the log after a step starts with the log
\* before it
C11_AppendOnly ==
  [][/\ Len(audit') >= Len(audit)
     /\ SubSeq(audit', 1, Len(audit)) = audit]_vars

\* the target rows a step adds, removes or replaces
ChangedTargets == (targets' \ targets) \cup (targets \ targets')

\* C12: a child edit of a DRAFT plan whose entry window does not contain the
\* current time is answered WindowClosed, and a child row is added, modified
\* or deleted only when its plan is DRAFT and start <= now <= end
C12_WindowClosed ==
  /\ [](\A user \in Actors, pk \in DOMAIN plans, ind \in Indicators :
         (/\ plans[pk].status = "DRAFT"
          /\ can_user_access_unit(user, plans[pk].unit)
          /\ ~is_within_entry_window(plans[pk], now))
         => target_create_response(user, pk, ind) = "WindowClosed")
  /\ [][\A t \in ChangedTargets :
          /\ plans[t.plan].status = "DRAFT"
          /\ is_within_entry_window(plans[t.plan], now)]_vars

\* C13: a child edit of a plan that is not DRAFT is answered InvalidState on
\* every route (add_target and the target resource's create, update and
\* delete), changes no child row and writes no audit row
C13_NonDraftRejected ==
  /\ [](\A user \in Actors, pk \in DOMAIN plans, ind \in Indicators :
         (plans[pk].status # "DRAFT"
            /\ can_user_access_unit(user, plans[pk].unit))
         => /\ add_target_response(user, pk, plans[pk].year, ind)
                 = "InvalidState"
            /\ target_create_response(user, pk, ind) = "InvalidState"
            /\ \A t \in targets :
                 t.plan = pk
                 => /\ target_update_response(user, t, ind) = "InvalidState"
                    /\ target_destroy_response(user, t) = "InvalidState")
  /\ [][\A user \in Actors, pk \in DOMAIN plans, ind \in Indicators :
          (plans[pk].status # "DRAFT"
             /\ \/ add_target(user, pk, plans[pk].year, ind)
                \/ target_perform_create(user, pk, ind)
                \/ \E t \in targets :
                     t.plan = pk /\ \/ target_perform_update(user, t, ind)
                                    \/ target_perform_destroy(user, t))
          => UNCHANGED <<targets, audit>>]_vars

\* C14: adding a target whose indicator is owned by another unit than the
\* plan's is answered InvalidIndicator, on add_target and on the target
\* resource's create, and adds no target row and no audit row
C14_InvalidIndicator ==
  /\ [](\A user \in Actors, pk \in DOMAIN plans, ind \in Indicators :
         (/\ plans[pk].status = "DRAFT"
          /\ can_user_access_unit(user, plans[pk].unit)
          /\ IndicatorOwner[ind] # plans[pk].unit)
         => /\ add_target_response(user, pk, plans[pk].year, ind)
                 = "InvalidIndicator"
            /\ target_create_response(user, pk, ind) = "InvalidIndicator")
  /\ [][\A user \in Actors, pk \in DOMAIN plans, ind \in Indicators :
          (IndicatorOwner[ind] # plans[pk].unit
             /\ \/ add_target(user, pk, plans[pk].year, ind)
                \/ target_perform_create(user, pk, ind))
          => UNCHANGED <<targets, audit>>]_vars

\* C15: every target's indicator is owned by the unit of the target's plan
C15_IndicatorOwned ==
  \A t \in targets :
    /\ t.plan \in DOMAIN plans
    /\ IndicatorOwner[t.indicator] = plans[t.plan].unit


\* the APPROVE and REJECT rows the audit table holds for a plan
Decisions(pk) ==
  {i \in DOMAIN audit :
     audit[i].context_plan = pk /\ audit[i].action \in {"APPROVE", "REJECT"}}

\* C16: transitions requested at the same time on one plan take effect one
\* after the other: only one of them is admitted and succeeds, the other is
\* answered InvalidState, so two workers never hold the same plan past the
\* checks and the plan never gets a second APPROVE or REJECT audit row.
C16_Serialized ==
  \A pk \in DOMAIN plans :
    /\ Cardinality(Decisions(pk)) <= 1
    /\ \A v, w \in Workers :
         inflight[v].pc = "saved" /\ inflight[w].pc = "saved" /\ inflight[v].pk = pk
           /\ inflight[w].pk = pk => v = w


\* C17: a store write that raises while bulk_approve or bulk_reject works
\* through its list undoes the whole batch: every plan keeps its status,
\* approved_by and approved_at and the audit log gets no row.
C17_BulkRollback ==
  [][Changed =>
       \A user \in Actors, ids \in IdLists, fault \in Faults \ {"none"} :
         \/ /\ bulk_approve_response(user, ids, fault) = "StoreFault"
            /\ bulk_approve(user, ids, fault)
         \/ /\ bulk_reject_response(user, ids, fault) = "StoreFault"
            /\ bulk_reject(user, ids, fault)
         => plans' = plans /\ audit' = audit]_vars

\* C17 witness: a bulk request has met a raising write and both plans are
\* still SUBMITTED, the audit log holding their two SUBMIT rows only
C17_Witness ==
  /\ faults > 0
  /\ \A pk \in PlanIds : pk \in DOMAIN plans /\ plans[pk].status = "SUBMITTED"
  /\ Len(audit) = 2
  /\ \A i \in DOMAIN audit : audit[i].action = "SUBMIT"


\* plan k and report k stand alike: same unit, year, status and stamps, and
\* children on both or on neither
Corresponding(k) ==
  /\ k \in DOMAIN plans \cap DOMAIN reports
  /\ \A f \in {"unit", "year", "status", "submitted_at", "approved_by",
               "approved_at"} : plans[k][f] = reports[k][f]
  /\ targets_exist(k) <=> entries_exist(k)

\* the audit action that goes with the status a transition leaves
TransitionAction(status) ==
  CASE status = "SUBMITTED" -> "SUBMIT"
    [] status = "APPROVED" -> "APPROVE"
    [] status = "REJECTED" -> "REJECT"
    [] OTHER -> None

\* C18: the report workflow does what the plan workflow does: where a plan
\* and a report stand alike, submit, approve, reject, bulk_approve and
\* bulk_reject get the same answer on both, and a report whose row a request
\* changed gets the audit row of that transition, as a plan does.
C18_Equivalent ==
  /\ [](\A user \in Actors, k \in PlanIds, year \in Years :
         Corresponding(k)
         => /\ report_submit_response(user, k, year)
                 = submit_response(user, k, year, "none")
            /\ report_approve_response(user, k, year)
                 = approve_response(user, k, year, "none")
            /\ report_reject_response(user, k, year)
                 = reject_response(user, k, year, "none"))
  /\ [](\A user \in Actors, ids \in IdLists :
         (\A k \in Listed(ids) \cap (DOMAIN plans \cup DOMAIN reports) :
             Corresponding(k))
         => /\ report_bulk_approve_response(user, ids)
                 = bulk_approve_response(user, ids, "none")
            /\ report_bulk_reject_response(user, ids)
                 = bulk_reject_response(user, ids, "none"))
  /\ [][\A k \in DOMAIN reports :
          reports'[k] # reports[k]
          => \E i \in (Len(audit) + 1)..Len(audit') :
               /\ audit'[i].context_report = k
               /\ audit'[i].action = TransitionAction(reports'[k].status)]_vars


\* C19: a batch moves only plans of units its approver can access: a
\* bulk_approve or bulk_reject by a STRATEGIC_AFFAIRS user leaves every plan
\* of a unit other than the user's own as it was.
C19_BulkScoped ==
  [][Changed =>
       \A user \in Users, ids \in IdLists :
         /\ get_user_profile(user) # NoProfile
         /\ get_user_profile(user).role = "STRATEGIC_AFFAIRS"
         /\ \/ /\ bulk_approve_response(user, ids, "none") = "OK"
               /\ bulk_approve(user, ids, "none")
            \/ /\ bulk_reject_response(user, ids, "none") = "OK"
               /\ bulk_reject(user, ids, "none")
         => \A pk \in DOMAIN plans :
              ~can_user_access_unit(user, plans[pk].unit)
              => plans'[pk] = plans[pk]]_vars


\* a caller not logged in, or a user without a UserProfile row
Unprofiled(user) == user = Anonymous \/ get_user_profile(user) = NoProfile

\* the answers that carry no row of the store
Refused == {"NotAuthenticated", "ServerError", "PermissionDenied", "NotFound"}

PlanWindowAsked == call.fn = "AnnualPlan.is_within_entry_window"

\* the last call asked a report about its window
ReportWindowAsked == call.fn = "QuarterlyReport.is_within_entry_window"

\* C21: a plan without an explicit window is within its window exactly from
\* 1 January 00:00 of its year to 31 January 00:00, thirty days later, both
\* included: the 2025 plan is at 2025-01-15, is not at 2025-02-15 and is not
\* before 2025-01-01.
C21_PlanDefaultWindow ==
  PlanWindowAsked /\ call.start = NoTime /\ call.end = NoTime
  => /\ call.result <=> /\ datetime(call.year, 1, 1, 0, 0, 0) <= call.when
                        /\ call.when <= datetime(call.year, 1, 31, 0, 0, 0)
     /\ call.year = 2025
        => /\ call.when = datetime(2025, 1, 15, 0, 0, 0) => call.result
           /\ call.when = datetime(2025, 2, 15, 0, 0, 0) => ~call.result
           /\ call.when < datetime(2025, 1, 1, 0, 0, 0) => ~call.result

\* C21 witness: the 2025 plan without explicit window asked at 31 January
\* 00:00, the last instant of its window, and found within it
C21_Witness ==
  /\ PlanWindowAsked
  /\ call.year = 2025 /\ call.start = NoTime /\ call.end = NoTime
  /\ call.when = datetime(2025, 1, 31, 0, 0, 0)
  /\ call.result

\* the last instant of a quarter and the instant fifteen days after it
QuarterEnd(year, quarter) ==
  CASE quarter = 1 -> datetime(year, 3, 31, 23, 59, 59)
    [] quarter = 2 -> datetime(year, 6, 30, 23, 59, 59)
    [] quarter = 3 -> datetime(year, 9, 30, 23, 59, 59)
    [] OTHER -> datetime(year, 12, 31, 23, 59, 59)

QuarterClose(year, quarter) ==
  CASE quarter = 1 -> datetime(year, 4, 15, 23, 59, 59)
    [] quarter = 2 -> datetime(year, 7, 15, 23, 59, 59)
    [] quarter = 3 -> datetime(year, 10, 15, 23, 59, 59)
    [] OTHER -> datetime(year + 1, 1, 15, 23, 59, 59)

\* C22: a report without an explicit window is within its window exactly from
\* the last second of its quarter's last day to fifteen days later, both
\* included: the 2025 Q1 report is at 2025-04-10, is not at 2025-05-01 and is
\* at no instant of the quarter before its last second.
C22_ReportDefaultWindow ==
  ReportWindowAsked /\ call.start = NoTime /\ call.end = NoTime
  => /\ call.result <=> /\ QuarterEnd(call.year, call.quarter) <= call.when
                        /\ call.when <= QuarterClose(call.year, call.quarter)
     /\ call.year = 2025 /\ call.quarter = 1
        => /\ call.when = datetime(2025, 4, 10, 0, 0, 0) => call.result
           /\ call.when = datetime(2025, 5, 1, 0, 0, 0) => ~call.result
           /\ call.when < datetime(2025, 3, 31, 23, 59, 59) => ~call.result

\* C22 witness: the 2025 Q1 report without explicit window asked at 10 April
\* 2025 and found within its window
C22_Witness ==
  /\ ReportWindowAsked
  /\ call.year = 2025 /\ call.quarter = 1
  /\ call.start = NoTime /\ call.end = NoTime
  /\ call.when = datetime(2025, 4, 10, 0, 0, 0)
  /\ call.result

\* the answer the same entity gives when both window fields are null
DefaultAnswer ==
  IF PlanWindowAsked
    THEN AnnualPlan_is_within_entry_window(call.year, NoTime, NoTime, call.when)
    ELSE QuarterlyReport_is_within_entry_window(call.year, call.quarter,
                                                NoTime, NoTime, call.when)

\* C23: the explicit window decides only when both its fields are set, by
\* start <= when <= end with both ends included; when exactly one field is
\* set it is ignored and the answer is that of the default window. The same
\* for plans and for reports.
C23_ExplicitWindow ==
  PlanWindowAsked \/ ReportWindowAsked
  => /\ call.start # NoTime /\ call.end # NoTime
        => (call.result <=> call.start <= call.when /\ call.when <= call.end)
     /\ (call.start = NoTime) # (call.end = NoTime)
        => (call.result <=> DefaultAnswer)

\* C23 witness: a 2025 plan whose window has only its start set, to 20
\* January, asked at 15 January and found within the default window
C23_Witness ==
  /\ PlanWindowAsked
  /\ call.year = 2025
  /\ call.start = datetime(2025, 1, 20, 0, 0, 0) /\ call.end = NoTime
  /\ call.when = datetime(2025, 1, 15, 0, 0, 0)
  /\ call.result

\* the units met by following parent references from u, at most n of them
RECURSIVE ParentChain(_, _)
ParentChain(u, n) ==
  IF n = 0 \/ units[u] = None THEN {}
  ELSE {units[u]} \cup ParentChain(units[u], n - 1)

\* C24: the unit hierarchy is a forest: following parent references from a
\* unit never returns to that unit, whatever units were created and updated.
C24_Forest ==
  \A u \in DOMAIN units : u \notin ParentChain(u, Cardinality(DOMAIN units))

\* the last call asked one of the two progress views and was answered
ProgressAnswered ==
  /\ call.fn \in {"get_annual_plan_progress", "get_quarterly_progress"}
  /\ call.result.status = "OK"

\* C25: completion_percentage is completed_entries / total_targets * 100
\* when total_targets > 0 and 0 when total_targets is 0, the request being
\* answered either way: no targets give 0, four targets with three entries
\* give 75.
C25_CompletionPercentage ==
  ProgressAnswered
  => LET body == call.result.body
         pct == body.completion_percentage
     IN /\ pct.den > 0
        /\ body.total_targets = 0 => pct.num = 0
        /\ body.total_targets > 0
           => pct.num * body.total_targets
                = body.completed_entries * 100 * pct.den
        /\ body.total_targets = 4 /\ body.completed_entries = 3
           => pct.num = 75 /\ pct.den = 1

\* C25 witness: the plan progress view answers 75 for four targets and three
\* entries
C25_Witness ==
  /\ call.fn = "get_annual_plan_progress"
  /\ call.result.status = "OK"
  /\ call.result.body.total_targets = 4
  /\ call.result.body.completed_entries = 3
  /\ call.result.body.completion_percentage = [num |-> 75, den |-> 1]

\* the status changes the workflow allows
LegalMoves ==
  {<<"DRAFT", "SUBMITTED">>, <<"SUBMITTED", "APPROVED">>,
   <<"SUBMITTED", "REJECTED">>}

\* C26: whatever submit, approve, reject, bulk_approve and bulk_reject
\* requests are made, answered or refused, the status of a plan or of a
\* report changes only from DRAFT to SUBMITTED, from SUBMITTED to APPROVED or
\* from SUBMITTED to REJECTED.
C26_LegalMoves ==
  [][/\ \A p \in DOMAIN plans :
          plans'[p].status # plans[p].status
          => <<plans[p].status, plans'[p].status>> \in LegalMoves
     /\ \A r \in DOMAIN reports :
          reports'[r].status # reports[r].status
          => <<reports[r].status, reports'[r].status>> \in LegalMoves]_vars

\* C26 witness: the plan was submitted and rejected, the report submitted and
\* approved
C26_Witness ==
  /\ 1 \in DOMAIN plans /\ plans[1].status = "REJECTED"
  /\ 1 \in DOMAIN reports /\ reports[1].status = "APPROVED"

\* C27: however submit, approve, reject, the bulk operations and the child
\* add, update and delete routes follow one another, every plan that is not
\* DRAFT has at least one target and every report that is not DRAFT has at
\* least one entry.
C27_ChildrenKept ==
  /\ \A p \in DOMAIN plans : plans[p].status # "DRAFT" => targets_exist(p)
  /\ \A r \in DOMAIN reports : reports[r].status # "DRAFT" => entries_exist(r)

\* C27 witness: after routes edited and deleted targets of the DRAFT plan,
\* the plan and the report left DRAFT and still have a child
C27_Witness ==
  /\ 1 \in DOMAIN plans /\ plans[1].status = "REJECTED"
  /\ 1 \in DOMAIN reports /\ reports[1].status = "SUBMITTED"
  /\ targets = {[plan |-> 1, indicator |-> "I2"]}
  /\ entries = {[report |-> 1, indicator |-> "I2"]}

\* the workflow fields of a plan or report row agree with its status
FieldsAgree(row) ==
  /\ row.approved_by # None <=> row.status = "APPROVED"
  /\ row.approved_at # NoTime <=> row.status = "APPROVED"
  /\ row.submitted_at # NoTime
       <=> row.status \in {"SUBMITTED", "APPROVED", "REJECTED"}

\* C28: in every reachable state approved_by and approved_at of a plan or
\* report are both set exactly when its status is APPROVED, and submitted_at
\* is set exactly when its status is SUBMITTED, APPROVED or REJECTED.
C28_FieldsAgree ==
  /\ \A p \in DOMAIN plans : FieldsAgree(plans[p])
  /\ \A r \in DOMAIN reports : FieldsAgree(reports[r])

\* C29: add_target by an actor with access, on a DRAFT plan, naming an
\* indicator of the plan's unit that the plan has no target for, succeeds
\* with one new target row and one CREATE audit row; add_entry likewise on a
\* DRAFT report.
C29_AddChildSucceeds ==
  /\ \A user \in Actors, pk \in DOMAIN plans, ind \in Indicators :
       (/\ can_user_access_unit(user, plans[pk].unit)
        /\ plans[pk].status = "DRAFT"
        /\ IndicatorOwner[ind] = plans[pk].unit
        /\ [plan |-> pk, indicator |-> ind] \notin targets)
       => add_target_response(user, pk, plans[pk].year, ind) = "OK"
  /\ \A user \in Actors, pk \in DOMAIN reports, ind \in Indicators :
       (/\ can_user_access_unit(user, reports[pk].unit)
        /\ reports[pk].status = "DRAFT"
        /\ IndicatorOwner[ind] = reports[pk].unit
        /\ [report |-> pk, indicator |-> ind] \notin entries)
       => add_entry_response(user, pk, reports[pk].year, ind) = "OK"

\* the listed plans that are SUBMITTED, each once however often it is listed
ListedSubmitted(ids) ==
  {pk \in DOMAIN plans : plans[pk].status = "SUBMITTED"
                           /\ \E i \in DOMAIN ids : ids[i] = pk}

\* a step moved exactly the plans of `moved` to `status` and appended one
\* `action` audit row for each of them
MovedOnce(moved, status, action) ==
  /\ DOMAIN plans' = DOMAIN plans
  /\ \A pk \in moved : plans'[pk].status = status
  /\ \A pk \in DOMAIN plans \ moved : plans'[pk] = plans[pk]
  /\ Len(audit') = Len(audit) + Cardinality(moved)
  /\ SubSeq(audit', 1, Len(audit)) = audit
  /\ \A i \in (Len(audit) + 1)..Len(audit') :
       audit'[i].action = action /\ audit'[i].context_plan \in moved
  /\ \A pk \in moved :
       Cardinality({i \in (Len(audit) + 1)..Len(audit') :
                      audit'[i].context_plan = pk}) = 1

\* C30: bulk_approve and bulk_reject over a list that repeats ids or names
\* ids of no plan answer without error, report as count the number of
\* distinct listed ids whose plan was SUBMITTED before the call, move each
\* of those plans once and write one audit row for each.
C30_RepeatedUnknownIds ==
  /\ [](\A user \in Actors, ids \in WildLists :
          bulk_check(user, ids) = "OK"
          => /\ bulk_approve_response(user, ids, "none") = "OK"
             /\ bulk_reject_response(user, ids, "none") = "OK"
             /\ bulk_approve_result(user, ids).count
                  = Cardinality(ListedSubmitted(ids))
             /\ bulk_reject_result(user, ids).count
                  = Cardinality(ListedSubmitted(ids)))
  /\ [][Changed =>
        \A user \in Actors, ids \in WildLists :
          /\ (bulk_check(user, ids) = "OK" /\ bulk_approve(user, ids, "none"))
             => MovedOnce(ListedSubmitted(ids), "APPROVED", "APPROVE")
          /\ (bulk_check(user, ids) = "OK" /\ bulk_reject(user, ids, "none"))
             => MovedOnce(ListedSubmitted(ids), "REJECTED", "REJECT")]_vars

\* C30 witness: both plans rejected by one batch whose list repeated an id or
\* named the missing one, their REJECT rows the two newest audit rows
C30_Witness ==
  /\ \A pk \in PlanIds : pk \in DOMAIN plans /\ plans[pk].status = "REJECTED"
  /\ Len(audit) >= 2
  /\ audit[Len(audit)].action = "REJECT"
  /\ audit[Len(audit) - 1].action = "REJECT"
  /\ audit[Len(audit)].context_plan # audit[Len(audit) - 1].context_plan
  /\ Cardinality({i \in DOMAIN audit : audit[i].action = "REJECT"}) = 2

====
